---- MODULE Spec2Model ----
(***************************************************************************)
(* A model of src/server.js (the CommonJS server, lines 96-348): the notes *)
(* API over notes.json, the sprint aggregation of GET /api/sprints and the *)
(* pagination of POST /api/search.                                         *)
(* agilePaged is also run alone against an upstream that answers anything, *)
(* and PUT /api/notes under clients whose requests are in flight together. *)
(* The store with blockers, which this server does not have, follows the   *)
(* description of the annotation store.                                    *)
(*                                                                         *)
(* JavaScript strings are sequences of one-character strings, so that      *)
(* trimming, concatenation, lower-casing and the regular expression of the *)
(* fallback scan are computed on characters.  A JSON object is a function  *)
(* from its member names to its values; a member that is absent from a     *)
(* request is absent from the function's domain.                           *)
(***************************************************************************)
EXTENDS Integers, Sequences, FiniteSets, TLC

VARIABLES
    notesFile,   \* the content of NOTES_FILE (notes.json)
    fileBefore,  \* the content of NOTES_FILE when the last request arrived
    req,         \* the request the notes API handled last
    res,         \* the response it sent
    \* GET /api/sprints: one request, from its arrival to its response
    spc,         \* where the handler is: the await it is suspended at
    remote,      \* the list the upstream holds for the endpoint being paged
    jiraBoards,  \* the boards the upstream holds for the project
    agile,       \* startAt and out of the agilePaged call in progress
    boards,      \* the handler's boards
    bi,          \* the index in boards of the board whose sprints are fetched
    seen,        \* the Map seen, as its entries in insertion order
    scan,        \* startAt and names of the issue scan
    queried,     \* the ids of the boards whose sprint endpoint was requested
    returned,    \* per finished sprint fetch, in order: the board and its sprints
    listing,     \* the board listing the handler's boards came from
    failed,      \* the upstream calls of the request that failed
    sres,        \* the response of GET /api/sprints
    \* POST /api/search: one request, from its arrival to its response
    qpc,         \* where the handler is
    qbody,       \* the body of the request
    jiraIssues,  \* the issues the upstream holds for the query
    jiraCap,     \* the most issues the upstream puts in one page
    searchStartAt, \* startAt of the loop
    searchAll,   \* all of the loop
    searchCalls, \* the startAt of each upstream call made, in order
    qres,        \* the response of POST /api/search
    \* the annotation store with blockers (the notes+blockers server)
    store,       \* the persisted root: bucket key -> bucket
    storeBefore, \* the root when the last request arrived
    breq,        \* the request handled last
    bres,        \* the response it got
    \* one call of agilePaged against an upstream that answers anything
    ppc,         \* where the call is
    pag,         \* its startAt and out
    pcalls,      \* the number of page requests it has made
    plast,       \* the response to its last page request
    \* PUT /api/notes requests of concurrent clients
    inflight,    \* the requests that have arrived and wait for their handler
    acked        \* the requests acknowledged with ok, in order

notesVars == <<notesFile, fileBefore, req, res>>

sprintsVars ==
    <<spc, remote, jiraBoards, agile, boards, bi, seen, scan, queried, returned,
      listing, failed, sres>>

searchVars ==
    <<qpc, qbody, jiraIssues, jiraCap, searchStartAt, searchAll, searchCalls, qres>>

storeVars == <<store, storeBefore, breq, bres>>

pagedVars == <<ppc, pag, pcalls, plast>>

writersVars == <<inflight, acked>>

vars == <<notesVars, sprintsVars, searchVars, storeVars, pagedVars, writersVars>>

(***************************************************************************)
(* Strings and objects                                                     *)
(***************************************************************************)
EmptyObj == [k \in {} |-> <<>>]

WhiteSpace == {" ", "\t", "\n"}

\* String.prototype.trim
RECURSIVE TrimStart(_)
TrimStart(s) ==
    IF s # <<>> /\ Head(s) \in WhiteSpace THEN TrimStart(Tail(s)) ELSE s

RECURSIVE TrimEnd(_)
TrimEnd(s) ==
    IF s # <<>> /\ s[Len(s)] \in WhiteSpace
        THEN TrimEnd(SubSeq(s, 1, Len(s) - 1))
        ELSE s

Trim(s) == TrimEnd(TrimStart(s))

IsMember(obj, f) == f \in DOMAIN obj

\* a destructured member: present and truthy (a non-empty string)
Truthy(obj, f) == f \in DOMAIN obj /\ obj[f] # <<>>

\* text ?? ''
TextOrEmpty(body) == IF "text" \in DOMAIN body THEN body["text"] ELSE <<>>

KeepKey(obj, k) == obj

\* delete obj[k]
DeleteKey(obj, k) == [x \in DOMAIN obj \ {k} |-> obj[x]]

SetOnlyKey(obj, k, v) == k :> v

\* obj[k] = v
SetKey(obj, k, v) == [x \in DOMAIN obj \cup {k} |-> IF x = k THEN v ELSE obj[x]]

(***************************************************************************)
(* Notes storage                                                           *)
(***************************************************************************)
\* The file is missing, holds text that JSON.parse rejects, or holds a JSON
\* object (root) as JSON.stringify wrote it.
MissingFile == [kind |-> "missing", root |-> EmptyObj]
InvalidFile == [kind |-> "invalid", root |-> EmptyObj]
ObjectFile(root) == [kind |-> "object", root |-> root]
\* The file holds JSON that is not an object: null, a number, string or
\* boolean, or an array.
NullFile == [kind |-> "null", root |-> EmptyObj]
ScalarFile == [kind |-> "scalar", root |-> EmptyObj]
ArrayFile == [kind |-> "array", root |-> EmptyObj]

\* what loadNotesFile returns, as the members a read of all[sk] finds: a
\* number, string, boolean or array has no member named by a bucket key
loadNotesFile(f) == IF f.kind = "object" THEN f.root ELSE EmptyObj

\* all[sk] throws a TypeError when loadNotesFile returned null
ReadThrows(f) == f.kind = "null"

\* all[sk] = all[sk] || {} throws on null; on a number, string or boolean the
\* assignment is dropped and the access to all[sk][issueKey] throws
WriteThrows(f) == f.kind \in {"null", "scalar"}

\* the member set on an array is not an element: JSON.stringify leaves it out
WriteDropped(f) == f.kind = "array"

\* the answer of the framework's error handler to a handler that throws
ThrownResponse == [status |-> 500, body |-> [error |-> "TypeError"]]

\* what loadNotesFile leaves on disk: a missing file is created as {}
FileAfterLoad(f) == IF f.kind = "missing" THEN ObjectFile(EmptyObj) ELSE f

saveNotesFile(obj) == ObjectFile(obj)

sprintKey(projectKey, sprintName) == projectKey \o <<"|", "|", "|">> \o sprintName

IsBlankNoTrim(text) == text = <<>>

\* (text ?? '').toString().trim() === ''
IsBlank(text) == Trim(text) = <<>>

(***************************************************************************)
(* The inputs of the notes API                                             *)
(***************************************************************************)
\* the (projectKey, sprintName) pairs of the requests: the first two give the
\* same bucket key, a||||a
Addresses == {<<<<"a">>, <<"|", "a">>>>, <<<<"a", "|">>, <<"a">>>>, <<<<"a">>, <<"a">>>>}
IssueKeys == {<<"I", "1">>, <<"I", "2">>}
Texts == {<<>>, <<" ">>, <<"a">>, <<" ", "a", "\t">>}

\* a request that leaves the member f out
Without(obj, f) == [x \in DOMAIN obj \ {f} |-> obj[x]]

\* the members of a request: a query string or a JSON body
Query(project, sprint) == ("project" :> project) @@ ("sprint" :> sprint)

Body(projectKey, sprintName, issueKey) ==
    ("projectKey" :> projectKey) @@ ("sprintName" :> sprintName)
        @@ ("issueKey" :> issueKey)

ValidGetQueries == {Query(a[1], a[2]) : a \in Addresses}

\* a parameter is missing or empty
InvalidGetQueries ==
    {Without(Query(<<"a">>, <<"a">>), "project"),
     Without(Query(<<"a">>, <<"a">>), "sprint"),
     Query(<<>>, <<"a">>),
     EmptyObj}

GetQueries == ValidGetQueries \cup InvalidGetQueries

\* text is a member of the body, or is left out
ValidPutBodies ==
    LET required == {Body(a[1], a[2], i) : a \in Addresses, i \in IssueKeys}
    IN required \cup {b @@ ("text" :> t) : b \in required, t \in Texts}

\* projectKey, sprintName or issueKey is missing or empty
InvalidPutBodies ==
    LET b == Body(<<"a">>, <<"a">>, <<"I", "1">>) @@ ("text" :> <<"a">>)
    IN {Without(b, "projectKey"), Without(b, "sprintName"),
        Without(b, "issueKey"), ("projectKey" :> <<>>) @@ b,
        ("issueKey" :> <<>>) @@ b, EmptyObj}

PutBodies == ValidPutBodies \cup InvalidPutBodies

(***************************************************************************)
(* The notes API                                                           *)
(***************************************************************************)
NoRequest == [method |-> "none", path |-> "", params |-> EmptyObj]
NoResponse == [status |-> 0, body |-> [none |-> TRUE]]

\* the bucket GET /api/notes reads: all[sprintKey(project, sprint)] || {}
BucketOf(all, sk) == IF sk \in DOMAIN all THEN all[sk] ELSE EmptyObj

\* what app.get('/api/notes') answers when it finds the file f
GetNotesResponse(f, q) ==
    IF ~Truthy(q, "project") \/ ~Truthy(q, "sprint")
        THEN [status |-> 400, body |-> [error |-> "Missing project or sprint"]]
        ELSE IF ReadThrows(f) THEN ThrownResponse
        ELSE LET all == loadNotesFile(f)
                 bucket == BucketOf(all, sprintKey(q["project"], q["sprint"]))
             IN [status |-> 200, body |-> [notes |-> bucket]]

\* app.get('/api/notes')
GetNotes(q) ==
    /\ UNCHANGED <<sprintsVars, searchVars, storeVars, pagedVars, writersVars>>
    /\ req' = [method |-> "GET", path |-> "/api/notes", params |-> q]
    /\ fileBefore' = notesFile
    /\ res' = GetNotesResponse(notesFile, q)
    /\ IF ~Truthy(q, "project") \/ ~Truthy(q, "sprint")
         THEN UNCHANGED notesFile
         ELSE notesFile' = FileAfterLoad(notesFile)

StoredTextTrimmed(text) == Trim(text)

\* the value all[sk][issueKey] = text stores
StoredText(text) == text

PutRootFresh(all, body) ==
    LET sk == sprintKey(body["projectKey"], body["sprintName"])
        text == TextOrEmpty(body)
    IN IF IsBlank(text)
         THEN sk :> EmptyObj
         ELSE sk :> (body["issueKey"] :> StoredText(text))

\* the root PUT /api/notes saves
PutRoot(all, body) ==
    LET sk == sprintKey(body["projectKey"], body["sprintName"])
        withBucket == SetKey(all, sk, BucketOf(all, sk))
        text == TextOrEmpty(body)
    IN IF IsBlank(text)
         THEN SetKey(withBucket, sk, DeleteKey(withBucket[sk], body["issueKey"]))
         ELSE SetKey(withBucket, sk, SetKey(withBucket[sk], body["issueKey"], StoredText(text)))

\* app.put('/api/notes'): the handler, from its first line to its response; it
\* awaits nothing
PutNotesHandler(body) ==
    /\ req' = [method |-> "PUT", path |-> "/api/notes", params |-> body]
    /\ fileBefore' = notesFile
    /\ IF ~Truthy(body, "projectKey") \/ ~Truthy(body, "sprintName")
            \/ ~Truthy(body, "issueKey")
         THEN /\ res' = [status |-> 400,
                         body |-> [error |-> "Missing projectKey, sprintName, or issueKey"]]
              /\ UNCHANGED notesFile
         ELSE IF WriteThrows(notesFile)
         THEN /\ res' = ThrownResponse
              /\ UNCHANGED notesFile
         ELSE IF WriteDropped(notesFile)
         THEN /\ res' = [status |-> 200, body |-> [ok |-> TRUE]]
              /\ UNCHANGED notesFile
         ELSE /\ notesFile' = saveNotesFile(PutRoot(loadNotesFile(notesFile), body))
              /\ res' = [status |-> 200, body |-> [ok |-> TRUE]]

\* a PUT /api/notes request that is handled as it arrives
PutNotes(body) ==
    /\ UNCHANGED <<sprintsVars, searchVars, storeVars, pagedVars, writersVars>>
    /\ PutNotesHandler(body)

NotesInit ==
    /\ notesFile \in {MissingFile, InvalidFile, ObjectFile(EmptyObj)}
    /\ fileBefore = notesFile
    /\ req = NoRequest
    /\ res = NoResponse

NotesNext ==
    \/ \E q \in GetQueries : GetNotes(q)
    \/ \E body \in PutBodies : PutNotes(body)


(***************************************************************************)
(* Comparing and sorting strings                                           *)
(***************************************************************************)
Min(a, b) == IF a <= b THEN a ELSE b

\* the UTF-16 code units of the characters of the strings that are sorted
CodeUnit(c) ==
    CASE c = " " -> 32 [] c = "," -> 44 [] c = "1" -> 49 [] c = "2" -> 50
      [] c = "3" -> 51 [] c = "7" -> 55 [] c = "=" -> 61 [] c = "[" -> 91
      [] c = "]" -> 93 [] c = "a" -> 97 [] c = "b" -> 98 [] c = "d" -> 100
      [] c = "e" -> 101 [] c = "g" -> 103 [] c = "i" -> 105 [] c = "l" -> 108
      [] c = "m" -> 109 [] c = "n" -> 110 [] c = "o" -> 111 [] c = "s" -> 115
      [] c = "t" -> 116

\* -1, 0 or 1 as string a comes before, with or after b, code unit by code unit
RECURSIVE CompareCodeUnits(_, _)
CompareCodeUnits(a, b) ==
    IF a = <<>> /\ b = <<>> THEN 0
    ELSE IF a = <<>> THEN -1
    ELSE IF b = <<>> THEN 1
    ELSE IF CodeUnit(Head(a)) < CodeUnit(Head(b)) THEN -1
    ELSE IF CodeUnit(Head(a)) > CodeUnit(Head(b)) THEN 1
    ELSE CompareCodeUnits(Tail(a), Tail(b))

\* a.localeCompare(b): on blanks, digits and lower-case letters the collation
\* order is blank < digits < letters, the order of the code units
localeCompare(a, b) == CompareCodeUnits(a, b)

\* the comparator of the sort of the sprint list
CompareByName(a, b) == localeCompare(a.name, b.name)

\* Array.prototype.sort with comparator CompareByName: a stable sort
RECURSIVE InsertByName(_, _)
InsertByName(sorted, e) ==
    IF sorted = <<>> THEN <<e>>
    ELSE IF CompareByName(sorted[Len(sorted)], e) <= 0 THEN Append(sorted, e)
    ELSE Append(InsertByName(SubSeq(sorted, 1, Len(sorted) - 1), e),
                sorted[Len(sorted)])

RECURSIVE SortByName(_)
SortByName(list) ==
    IF list = <<>> THEN <<>>
    ELSE InsertByName(SortByName(SubSeq(list, 1, Len(list) - 1)), list[Len(list)])

\* Array.from(names).sort(): the strings of a set in code unit order
RECURSIVE SortStrings(_)
SortStrings(S) ==
    IF S = {} THEN <<>>
    ELSE LET least == CHOOSE x \in S : \A y \in S : CompareCodeUnits(x, y) <= 0
         IN <<least>> \o SortStrings(S \ {least})

\* String.prototype.toLowerCase
LowerChar(c) ==
    CASE c = "S" -> "s" [] c = "C" -> "c" [] c = "R" -> "r" [] c = "U" -> "u"
      [] c = "M" -> "m" [] OTHER -> c

toLowerCase(str) == [n \in 1..Len(str) |-> LowerChar(str[n])]

(***************************************************************************)
(* The upstream                                                            *)
(***************************************************************************)
MaxBoards == 2
MaxSprints == 2
MaxIssues == 2
\* the most items the upstream puts in one page, whatever maxResults asks
UpstreamPageCap == 1

Scrum == <<"s", "c", "r", "u", "m">>

BoardUniverse ==
    {[id |-> 1, name |-> "Team A", type |-> Scrum],
     [id |-> 2, name |-> "Team B", type |-> <<"S", "c", "r", "u", "m">>],
     [id |-> 3, name |-> "Support", type |-> <<"k", "a", "n", "b", "a", "n">>]}

SprintUniverse ==
    {[id |-> 1, name |-> <<"b">>, state |-> "active"],
     [id |-> 2, name |-> <<"a">>, state |-> "closed"],
     [id |-> 3, name |-> <<"a">>, state |-> "future"]}

\* the sequences without repetition of at most n elements of S
ListsOf(S, n) ==
    {l \in UNION {[1..k -> S] : k \in 0..n} :
        \A i, j \in DOMAIN l : i # j => l[i] # l[j]}

BoardLists == ListsOf(BoardUniverse, MaxBoards)
SprintLists == ListsOf(SprintUniverse, MaxSprints)

\* the boards a listing with type=scrum holds
IsScrum(b) == toLowerCase(b.type) = Scrum
ScrumBoardsOf(list) == SelectSeq(list, IsScrum)

\* the page of list that starts at startAt
PageValues(list, startAt, maxResults) ==
    SubSeq(list, startAt + 1,
           Min(Len(list), startAt + Min(maxResults, UpstreamPageCap)))

\* The pages of the agile API: total and isLast are members of some
\* responses and not of others.
AgileResponses(list, startAt, maxResults) ==
    LET values == PageValues(list, startAt, maxResults)
    IN {[values |-> values, hasTotal |-> ht, total |-> Len(list),
         isLast |-> il /\ startAt + Len(values) >= Len(list)] :
            ht \in BOOLEAN, il \in BOOLEAN}

\* a failed call: the message of err.response.data.errorMessages[0] or of err
Failures ==
    {[status |-> 400, message |-> "The board doesn't support sprints"],
     [status |-> 0, message |-> "timeout of 30000ms exceeded"]}

\* /doesn'?t support sprints/i.test(msg)
IsUnsupported(msg) ==
    msg \in {"The board doesn't support sprints", "The board doesnt support sprints",
             "Board DOESN'T SUPPORT SPRINTS"}

\* the sprint field (customfield_10020) of an issue: null, one value or an
\* array of values; a value is an object with a name or an encoded string
\* of comma-delimited key=value pairs
Chars(key) ==
    CASE key = "id" -> <<"i", "d">>
      [] key = "state" -> <<"s", "t", "a", "t", "e">>
      [] key = "name" -> <<"n", "a", "m", "e">>
      [] key = "goal" -> <<"g", "o", "a", "l">>

RECURSIVE EncodePairs(_)
EncodePairs(tokens) ==
    IF tokens = <<>> THEN <<>>
    ELSE Chars(tokens[1][1]) \o <<"=">> \o tokens[1][2]
            \o (IF Len(tokens) > 1 THEN <<",">> ELSE <<>>)
            \o EncodePairs(Tail(tokens))

\* the string the upstream sends for a sprint: [key=value,key=value,...]
Encode(tokens) == <<"[">> \o EncodePairs(tokens) \o <<"]">>

ObjectValue(name) == [type |-> "object", name |-> name, tokens |-> <<>>]
StringValue(tokens) == [type |-> "string", name |-> <<>>, tokens |-> tokens]

SprintFields ==
    {[shape |-> "null", values |-> <<>>],
     [shape |-> "single", values |-> <<ObjectValue(<<"s", "7">>)>>],
     [shape |-> "single", values |-> <<StringValue(
         <<<<"id", <<"1">>>>, <<"state", <<"a">>>>, <<"name", <<"s", "1", "2">>>>,
           <<"goal", <<>>>>>>)>>],
     [shape |-> "array", values |-> <<
         StringValue(<<<<"id", <<"2">>>>, <<"name", <<"s", "7">>>>,
                       <<"goal", <<"b">>>>>>),
         ObjectValue(<<"s", "3">>)>>]}

IssueLists == UNION {[1..k -> SprintFields] : k \in 0..MaxIssues}

\* the pages of the search API report the total
SearchResponse(list, startAt, maxResults) ==
    [issues |-> PageValues(list, startAt, maxResults), total |-> Len(list)]

(***************************************************************************)
(* GET /api/sprints                                                        *)
(***************************************************************************)
AgileMaxResults == 50
HardLimit == 5000
ScanMaxResults == 100
Null == 0

NoSprintsResponse == [status |-> 0]
NoFailure == [listings |-> {}, boards |-> {}, scan |-> FALSE]
AgileStart == [startAt |-> 0, out |-> <<>>]

AgileAfterNoLimit(ag, data) ==
    LET values == data.values
        out == ag.out \o values
        total == IF data.hasTotal THEN data.total ELSE Len(out)
        stop == \/ data.isLast
                \/ ag.startAt + Len(values) >= total
                \/ Len(values) = 0
    IN [out |-> out,
        startAt |-> IF stop THEN ag.startAt ELSE ag.startAt + Len(values),
        stop |-> stop]

\* one turn of the loop of agilePaged on the response data: out, the next
\* startAt, and whether the loop breaks
AgileAfter(ag, data) ==
    LET values == data.values
        out == ag.out \o values
        total == IF data.hasTotal THEN data.total ELSE Len(out)
        stop == \/ data.isLast
                \/ ag.startAt + Len(values) >= total
                \/ Len(values) = 0
                \/ Len(out) >= HardLimit
    IN [out |-> out,
        startAt |-> IF stop THEN ag.startAt ELSE ag.startAt + Len(values),
        stop |-> stop]

KeepAllBoards(allBoards) == allBoards

\* allBoards.filter(b => (b.type || '').toLowerCase() === 'scrum')
FilterScrum(allBoards) ==
    SelectSeq(allBoards, LAMBDA b : toLowerCase(b.type) = <<"s", "c", "r", "u", "m">>)

\* seen.has(id)
SeenHas(entries, id) == \E n \in DOMAIN entries : entries[n].id = id

SeenSetAlways(entries, s, b) ==
    LET e == [id |-> s.id, name |-> s.name, state |-> s.state,
              boardId |-> b.id, boardName |-> b.name]
    IN IF SeenHas(entries, s.id)
         THEN [n \in DOMAIN entries |-> IF entries[n].id = s.id THEN e ELSE entries[n]]
         ELSE Append(entries, e)

\* if (!seen.has(s.id)) seen.set(s.id, {...})
SeenAdd(entries, s, b) ==
    IF SeenHas(entries, s.id)
        THEN entries
        ELSE Append(entries, [id |-> s.id, name |-> s.name, state |-> s.state,
                              boardId |-> b.id, boardName |-> b.name])

\* for (const s of sprints) ...
RECURSIVE AddSprints(_, _, _)
AddSprints(entries, sprints, b) ==
    IF sprints = <<>> THEN entries
    ELSE AddSprints(SeenAdd(entries, Head(sprints), b), Tail(sprints), b)

UpToEnd(str) == str

\* /name=([^,]+)/.exec(v): the capture, <<>> when nothing matches
RECURSIVE UpToComma(_)
UpToComma(str) ==
    IF str = <<>> \/ Head(str) = "," THEN <<>>
    ELSE <<Head(str)>> \o UpToComma(Tail(str))

RECURSIVE NameCapture(_)
NameCapture(str) ==
    IF Len(str) < 6 THEN <<>>
    ELSE IF SubSeq(str, 1, 5) = <<"n", "a", "m", "e", "=">> /\ str[6] # ","
        THEN UpToComma(SubSeq(str, 6, Len(str)))
        ELSE NameCapture(Tail(str))

\* the names one value of the sprint field adds
ValueNames(v) ==
    IF v.type = "string"
        THEN (IF NameCapture(Encode(v.tokens)) # <<>>
                THEN {NameCapture(Encode(v.tokens))} ELSE {})
        ELSE (IF v.name # <<>> THEN {v.name} ELSE {})

\* the names the issues of one page add: a null field is skipped, a single
\* value is taken as an array of one
PageNames(issues) ==
    UNION {IF issues[n].shape = "null" THEN {}
           ELSE UNION {ValueNames(issues[n].values[k]) :
                          k \in DOMAIN issues[n].values} : n \in DOMAIN issues}

DerivedPrefix == <<"d", "e", "r", "i", "v", "e", "d", ":">>

\* Array.from(names).sort().map(n => ({...}))
DerivedList(names) ==
    LET sorted == SortStrings(names)
    IN [n \in DOMAIN sorted |->
           [id |-> DerivedPrefix \o sorted[n], name |-> sorted[n], state |-> "unknown",
            boardId |-> Null, boardName |-> "derived-from-issues"]]

CaughtOnlyIfUnsupported(f) == IsUnsupported(f.message)

\* try { ... } catch (err) { ... } in the loop over the boards: every error of
\* a sprint fetch is caught there, and logged
CaughtInLoop(f) == TRUE

\* res.status(e.response?.status || 500).send(e.response?.data || e.message)
ErrorResponse(f) ==
    [status |-> IF f.status = 0 THEN 500 ELSE f.status, error |-> f.message]

\* lines 230-267, once the loop over the boards has ended with seen = entries:
\* the sorted list is the response, or the issue scan starts
AfterLoop(entries) ==
    LET list == SortByName(entries)
    IN IF list = <<>>
         THEN /\ spc' = "issueScan"
              /\ scan' = [startAt |-> 0, names |-> {}]
              /\ remote' \in IssueLists
              /\ UNCHANGED sres
         ELSE /\ spc' = "done"
              /\ sres' = [status |-> 200, sprints |-> list]
              /\ remote' = <<>>
              /\ UNCHANGED scan

\* the loop over the boards goes on to its next board, or ends
NextBoard(entries, fetched) ==
    /\ seen' = entries
    /\ returned' = fetched
    /\ agile' = AgileStart
    /\ IF bi < Len(boards)
         THEN /\ bi' = bi + 1
              /\ spc' = "boardSprints"
              /\ remote' \in SprintLists
              /\ UNCHANGED <<scan, sres>>
         ELSE /\ bi' = bi
              /\ AfterLoop(entries)

\* boards is assigned and the loop over the boards starts
AfterBoards(bs) ==
    /\ boards' = bs
    /\ agile' = AgileStart
    /\ IF bs = <<>>
         THEN /\ bi' = 0
              /\ AfterLoop(<<>>)
         ELSE /\ bi' = 1
              /\ spc' = "boardSprints"
              /\ remote' \in SprintLists
              /\ UNCHANGED <<scan, sres>>
    /\ UNCHANGED <<seen, returned, queried, jiraBoards>>

\* app.get('/api/sprints'), up to its first await
SprintsRequest ==
    /\ spc = "idle"
    /\ UNCHANGED <<notesVars, searchVars, storeVars, pagedVars, writersVars, failed>>
    /\ \/ /\ sres' = [status |-> 400, error |-> "Missing projectKeyOrId"]
          /\ spc' = "done"
          /\ UNCHANGED <<remote, jiraBoards, agile, boards, bi, seen, scan,
                         queried, returned, listing>>
       \/ \E list \in BoardLists :
            /\ jiraBoards' = list
            /\ remote' = ScrumBoardsOf(list)
            /\ spc' = "boardsFiltered"
            /\ agile' = AgileStart
            /\ listing' = "filtered"
            /\ UNCHANGED <<boards, bi, seen, scan, queried, returned, sres>>

\* one page of agilePaged('/rest/agile/1.0/board', {projectKeyOrId, type: 'scrum'})
BoardsFilteredPage ==
    /\ spc = "boardsFiltered"
    /\ UNCHANGED <<notesVars, searchVars, storeVars, pagedVars, writersVars>>
    /\ \/ \E f \in Failures :
            /\ failed' = [failed EXCEPT !.listings = @ \cup {"filtered"}]
            /\ spc' = "boardsAll"
            /\ agile' = AgileStart
            /\ remote' = jiraBoards
            /\ listing' = "all"
            /\ UNCHANGED <<jiraBoards, boards, bi, seen, scan, queried, returned, sres>>
       \/ \E data \in AgileResponses(remote, agile.startAt, AgileMaxResults) :
            LET a == AgileAfter(agile, data)
            IN IF a.stop
                 THEN AfterBoards(a.out) /\ UNCHANGED <<listing, failed>>
                 ELSE /\ agile' = [startAt |-> a.startAt, out |-> a.out]
                      /\ UNCHANGED <<spc, remote, jiraBoards, boards, bi, seen, scan,
                                     queried, returned, listing, failed, sres>>

\* one page of agilePaged('/rest/agile/1.0/board', {projectKeyOrId})
BoardsAllPage ==
    /\ spc = "boardsAll"
    /\ UNCHANGED <<notesVars, searchVars, storeVars, pagedVars, writersVars>>
    /\ \/ \E f \in Failures :
            /\ failed' = [failed EXCEPT !.listings = @ \cup {"all"}]
            /\ sres' = ErrorResponse(f)
            /\ spc' = "done"
            /\ UNCHANGED <<remote, jiraBoards, agile, boards, bi, seen, scan,
                           queried, returned, listing>>
       \/ \E data \in AgileResponses(remote, agile.startAt, AgileMaxResults) :
            LET a == AgileAfter(agile, data)
            IN IF a.stop
                 THEN AfterBoards(FilterScrum(a.out)) /\ UNCHANGED <<listing, failed>>
                 ELSE /\ agile' = [startAt |-> a.startAt, out |-> a.out]
                      /\ UNCHANGED <<spc, remote, jiraBoards, boards, bi, seen, scan,
                                     queried, returned, listing, failed, sres>>

\* one page of agilePaged(`/rest/agile/1.0/board/${b.id}/sprint`, ...); a
\* failure is caught in the loop and the board adds nothing
BoardSprintsPage ==
    /\ spc = "boardSprints"
    /\ UNCHANGED <<notesVars, searchVars, storeVars, pagedVars, writersVars>>
    /\ queried' = queried \cup {boards[bi].id}
    /\ UNCHANGED <<jiraBoards, boards, listing>>
    /\ \/ \E f \in Failures :
            /\ failed' = [failed EXCEPT !.boards = @ \cup {boards[bi].id}]
            /\ IF CaughtInLoop(f)
                 THEN NextBoard(seen, returned)
                 ELSE /\ sres' = ErrorResponse(f)
                      /\ spc' = "done"
                      /\ UNCHANGED <<remote, agile, bi, seen, scan, returned>>
       \/ \E data \in AgileResponses(remote, agile.startAt, AgileMaxResults) :
            LET a == AgileAfter(agile, data)
            IN /\ UNCHANGED failed
               /\ IF a.stop
                    THEN NextBoard(AddSprints(seen, a.out, boards[bi]),
                                   Append(returned, [board |-> boards[bi], sprints |-> a.out]))
                    ELSE /\ agile' = [startAt |-> a.startAt, out |-> a.out]
                         /\ UNCHANGED <<spc, remote, bi, seen, scan, returned, sres>>

\* one turn of the loop of the issue scan
IssueScanPage ==
    /\ spc = "issueScan"
    /\ UNCHANGED <<notesVars, searchVars, storeVars, pagedVars, writersVars>>
    /\ UNCHANGED <<remote, jiraBoards, agile, boards, bi, seen, queried, returned,
                   listing>>
    /\ \/ \E f \in Failures :
            /\ failed' = [failed EXCEPT !.scan = TRUE]
            /\ sres' = ErrorResponse(f)
            /\ spc' = "done"
            /\ UNCHANGED scan
       \/ LET data == SearchResponse(remote, scan.startAt, ScanMaxResults)
              names == scan.names \cup PageNames(data.issues)
              startAt == scan.startAt + Len(data.issues)
          IN /\ UNCHANGED failed
             /\ scan' = [startAt |-> startAt, names |-> names]
             /\ IF startAt >= data.total \/ Len(data.issues) = 0
                  THEN /\ sres' = [status |-> 200, sprints |-> DerivedList(names)]
                       /\ spc' = "done"
                  ELSE UNCHANGED <<spc, sres>>

SprintsInit ==
    /\ spc = "idle"
    /\ remote = <<>>
    /\ jiraBoards = <<>>
    /\ agile = AgileStart
    /\ boards = <<>>
    /\ bi = 0
    /\ seen = <<>>
    /\ scan = [startAt |-> 0, names |-> {}]
    /\ queried = {}
    /\ returned = <<>>
    /\ listing = "none"
    /\ failed = NoFailure
    /\ sres = NoSprintsResponse

SprintsNext ==
    \/ SprintsRequest
    \/ BoardsFilteredPage
    \/ BoardsAllPage
    \/ BoardSprintsPage
    \/ IssueScanPage

(***************************************************************************)
(* POST /api/search                                                        *)
(***************************************************************************)
MaxSearchIssues == 5
MaxSearchCalls == 6
DefaultMaxResults == 100
\* an upstream that puts as many issues in a page as maxResults asks
NoCap == 1000

\* the issues of the upstream: 1, 2, ..., n
IssuesUpTo(n) == [k \in 1..n |-> k]

\* the queries of the requests: empty, blank, and one that names a project
Jqls == {<<>>, <<" ">>, <<"p">>}

\* the bodies without jql
NoJqlBodies ==
    {[hasJql |-> FALSE, jql |-> <<>>, hasMaxResults |-> TRUE, maxResults |-> 1],
     [hasJql |-> FALSE, jql |-> <<>>, hasMaxResults |-> FALSE, maxResults |-> 0]}

\* the bodies of the requests: jql and maxResults are members or are not
SearchBodies ==
    {[hasJql |-> TRUE, jql |-> q, hasMaxResults |-> TRUE, maxResults |-> m] :
        q \in Jqls, m \in 0..2}
    \cup {[hasJql |-> TRUE, jql |-> q, hasMaxResults |-> FALSE, maxResults |-> 0] :
            q \in Jqls}
    \cup NoJqlBodies

\* !jql: jql is undefined or the empty string
JqlFalsy(body) == ~body.hasJql \/ body.jql = <<>>

\* maxResults = 100 when the body has none
MaxResultsOf(body) == IF body.hasMaxResults THEN body.maxResults ELSE DefaultMaxResults

\* the page of the search API at startAt, and the total
SearchPage(list, startAt, maxResults, cap) ==
    [issues |-> SubSeq(list, startAt + 1,
                       Min(Len(list), startAt + Min(maxResults, cap))),
     total |-> Len(list)]

SearchStopsLate(startAt, count, total) == startAt + count > total

\* if (startAt + (data.issues?.length || 0) >= data.total) break
SearchStops(startAt, count, total) == startAt + count >= total

\* app.post('/api/search'), up to its first await
SearchRequest ==
    /\ qpc = "idle"
    /\ UNCHANGED <<notesVars, sprintsVars, storeVars, pagedVars, writersVars>>
    /\ \E body \in SearchBodies :
        /\ qbody' = body
        /\ IF JqlFalsy(body)
             THEN /\ qres' = [status |-> 400, error |-> "Missing jql"]
                  /\ qpc' = "done"
                  /\ UNCHANGED <<jiraIssues, jiraCap, searchStartAt, searchAll, searchCalls>>
             ELSE /\ qpc' = "paging"
                  /\ searchStartAt' = 0
                  /\ searchAll' = <<>>
                  /\ \E n \in 0..MaxSearchIssues : jiraIssues' = IssuesUpTo(n)
                  /\ jiraCap' \in {UpstreamPageCap, NoCap}
                  /\ UNCHANGED <<searchCalls, qres>>

\* one turn of the loop: one upstream call
SearchPageCall ==
    /\ qpc = "paging"
    /\ Len(searchCalls) < MaxSearchCalls
    /\ UNCHANGED <<notesVars, sprintsVars, storeVars, pagedVars, writersVars, qbody,
                   jiraIssues, jiraCap>>
    /\ searchCalls' = Append(searchCalls, searchStartAt)
    /\ \/ \E f \in Failures :
            /\ qres' = ErrorResponse(f)
            /\ qpc' = "done"
            /\ UNCHANGED <<searchStartAt, searchAll>>
       \/ LET data == SearchPage(jiraIssues, searchStartAt, MaxResultsOf(qbody), jiraCap)
              all == searchAll \o data.issues
          IN /\ searchAll' = all
             /\ IF SearchStops(searchStartAt, Len(data.issues), data.total)
                  THEN /\ qres' = [status |-> 200, issues |-> all]
                       /\ qpc' = "done"
                       /\ UNCHANGED searchStartAt
                  ELSE /\ searchStartAt' = searchStartAt + Len(data.issues)
                       /\ UNCHANGED <<qpc, qres>>

SearchInit ==
    /\ qpc = "idle"
    /\ qbody = [hasJql |-> FALSE, jql |-> <<>>, hasMaxResults |-> FALSE, maxResults |-> 0]
    /\ jiraIssues = <<>>
    /\ jiraCap = NoCap
    /\ searchStartAt = 0
    /\ searchAll = <<>>
    /\ searchCalls = <<>>
    /\ qres = [status |-> 0]

SearchNext ==
    \/ SearchRequest
    \/ SearchPageCall

(***************************************************************************)
(* The annotation store with blockers: PUT /api/blocker and the            *)
(* {notes, blockers} answer of GET /api/notes.  A bucket is a legacy flat  *)
(* issueKey -> text map, or holds the two maps notes and blockers.         *)
(***************************************************************************)
LegacyBucket(flat) == [legacy |-> TRUE, notes |-> flat, blockers |-> EmptyObj]
CurrentBucket(notes, blockers) == [legacy |-> FALSE, notes |-> notes, blockers |-> blockers]

\* a legacy bucket becomes {notes: <that map>, blockers: {}}
normalizeBucket(bucket) ==
    IF bucket.legacy THEN CurrentBucket(bucket.notes, EmptyObj) ELSE bucket

\* the addressed bucket, normalized; two empty maps when it is missing
LoadBucket(root, sk) ==
    IF sk \in DOMAIN root THEN normalizeBucket(root[sk])
    ELSE CurrentBucket(EmptyObj, EmptyObj)

\* getBucket(projectKey, sprintName): a copy of the two maps
getBucket(root, projectKey, sprintName) ==
    LET bucket == LoadBucket(root, sprintKey(projectKey, sprintName))
    IN [notes |-> bucket.notes, blockers |-> bucket.blockers]

\* setNote: the root that is persisted
setNote(root, projectKey, sprintName, issueKey, text) ==
    LET sk == sprintKey(projectKey, sprintName)
        bucket == LoadBucket(root, sk)
    IN SetKey(root, sk,
              CurrentBucket(IF IsBlank(text) THEN DeleteKey(bucket.notes, issueKey)
                            ELSE SetKey(bucket.notes, issueKey, text),
                            bucket.blockers))

setBlockerStoresFalse(root, projectKey, sprintName, issueKey, blocked) ==
    LET sk == sprintKey(projectKey, sprintName)
        bucket == LoadBucket(root, sk)
    IN SetKey(root, sk,
              CurrentBucket(bucket.notes, SetKey(bucket.blockers, issueKey, blocked)))

\* setBlocker: the key is set to true when blocked is truthy and deleted
\* otherwise; the root that is persisted
setBlocker(root, projectKey, sprintName, issueKey, blocked) ==
    LET sk == sprintKey(projectKey, sprintName)
        bucket == LoadBucket(root, sk)
    IN SetKey(root, sk,
              CurrentBucket(bucket.notes,
                            IF blocked THEN SetKey(bucket.blockers, issueKey, TRUE)
                            ELSE DeleteKey(bucket.blockers, issueKey)))

\* the texts of the notes of this store's requests
StoreTexts == {<<" ">>, <<"a">>}

\* the roots a server without blockers left behind: flat buckets
LegacyRoots ==
    {EmptyObj,
     sprintKey(<<"a">>, <<"a">>) :> LegacyBucket(<<"I", "1">> :> <<"a">>),
     (sprintKey(<<"a">>, <<"a">>) :> LegacyBucket(<<"I", "1">> :> <<"a">>))
        @@ (sprintKey(<<"a">>, <<"|", "a">>) :> LegacyBucket(EmptyObj))}

NoStoreRequest == [method |-> "none", path |-> ""]

\* GET /api/notes of the store with blockers
StoreGetNotes ==
    /\ UNCHANGED <<notesVars, sprintsVars, searchVars, pagedVars, writersVars, store>>
    /\ storeBefore' = store
    /\ \E a \in Addresses :
        /\ breq' = [method |-> "GET", path |-> "/api/notes",
                    project |-> a[1], sprint |-> a[2]]
        /\ bres' = [status |-> 200, body |-> getBucket(store, a[1], a[2])]

\* PUT /api/notes of the store with blockers
StorePutNotes ==
    /\ UNCHANGED <<notesVars, sprintsVars, searchVars, pagedVars, writersVars>>
    /\ storeBefore' = store
    /\ \E a \in Addresses, i \in IssueKeys, t \in StoreTexts :
        /\ breq' = [method |-> "PUT", path |-> "/api/notes", projectKey |-> a[1],
                    sprintName |-> a[2], issueKey |-> i, text |-> t]
        /\ store' = setNote(store, a[1], a[2], i, t)
        /\ bres' = [status |-> 200, body |-> [ok |-> TRUE]]

\* PUT /api/blocker; a body without blocked counts as blocked: false
StorePutBlocker ==
    /\ UNCHANGED <<notesVars, sprintsVars, searchVars, pagedVars, writersVars>>
    /\ storeBefore' = store
    /\ \/ /\ breq' = [method |-> "PUT", path |-> "/api/blocker"]
          /\ bres' = [status |-> 400, body |-> [error |-> "Missing parameters"]]
          /\ UNCHANGED store
       \/ \E a \in Addresses, i \in IssueKeys, blocked \in BOOLEAN :
            /\ breq' = [method |-> "PUT", path |-> "/api/blocker", projectKey |-> a[1],
                        sprintName |-> a[2], issueKey |-> i, blocked |-> blocked]
            /\ store' = setBlocker(store, a[1], a[2], i, blocked)
            /\ bres' = [status |-> 200, body |-> [ok |-> TRUE]]

StoreInit ==
    /\ store = EmptyObj
    /\ storeBefore = EmptyObj
    /\ breq = NoStoreRequest
    /\ bres = NoResponse

StoreNext ==
    \/ StoreGetNotes
    \/ StorePutNotes
    \/ StorePutBlocker

(***************************************************************************)
(* agilePaged against an upstream that answers anything                    *)
(***************************************************************************)
\* the pages are empty or hold maxResults items
PageSizes == {0, AgileMaxResults}

\* the totals the responses report: none, or a number that need not agree
\* with the items served
ReportedTotals == {0, 2 * AgileMaxResults, 2 * HardLimit}

Items(n) == [k \in 1..n |-> 0]

\* every response: values of a size, total a member or not, isLast set or not
AnyResponses ==
    {[values |-> Items(n), hasTotal |-> TRUE, total |-> t, isLast |-> il] :
        n \in PageSizes, t \in ReportedTotals, il \in BOOLEAN}
    \cup {[values |-> Items(n), hasTotal |-> FALSE, total |-> 0, isLast |-> il] :
            n \in PageSizes, il \in BOOLEAN}

NoPage == [count |-> 0, hasTotal |-> FALSE, total |-> 0, isLast |-> FALSE,
           startAt |-> 0, failed |-> FALSE]

\* agilePaged is called
PagedCall ==
    /\ ppc = "idle"
    /\ UNCHANGED <<notesVars, sprintsVars, searchVars, storeVars, writersVars>>
    /\ ppc' = "paging"
    /\ pag' = AgileStart
    /\ UNCHANGED <<pcalls, plast>>

\* one turn of the loop of agilePaged: one page request, which throws or is
\* answered
PagedPage ==
    /\ ppc = "paging"
    /\ UNCHANGED <<notesVars, sprintsVars, searchVars, storeVars, writersVars>>
    /\ pcalls' = pcalls + 1
    /\ \/ /\ ppc' = "done"
          /\ plast' = [NoPage EXCEPT !.startAt = pag.startAt, !.failed = TRUE]
          /\ UNCHANGED pag
       \/ \E data \in AnyResponses :
            LET a == AgileAfter(pag, data)
            IN /\ pag' = [startAt |-> a.startAt, out |-> a.out]
               /\ ppc' = IF a.stop THEN "done" ELSE "paging"
               /\ plast' = [count |-> Len(data.values), hasTotal |-> data.hasTotal,
                            total |-> data.total, isLast |-> data.isLast,
                            startAt |-> pag.startAt, failed |-> FALSE]

PagedInit ==
    /\ ppc = "idle"
    /\ pag = AgileStart
    /\ pcalls = 0
    /\ plast = NoPage

PagedNext ==
    \/ PagedCall
    \/ PagedPage

(***************************************************************************)
(* Concurrent writers: PUT /api/notes requests that are in flight together *)
(***************************************************************************)
MaxWriters == 2

\* the bodies the writers send
WriterBodies ==
    {Body(a[1], a[2], i) @@ ("text" :> t) :
        a \in Addresses, i \in IssueKeys, t \in {<<"a">>, <<" ", "a", "\t">>}}

\* a request arrives while others may be waiting
PutArrives ==
    /\ Cardinality(inflight) + Len(acked) < MaxWriters
    /\ UNCHANGED <<notesVars, sprintsVars, searchVars, storeVars, pagedVars, acked>>
    /\ \E body \in WriterBodies \ inflight : inflight' = inflight \cup {body}

\* the event loop runs the handler of one waiting request, to its end
PutHandled ==
    /\ UNCHANGED <<sprintsVars, searchVars, storeVars, pagedVars>>
    /\ \E body \in inflight :
        /\ PutNotesHandler(body)
        /\ inflight' = inflight \ {body}
        /\ acked' = IF res'.status = 200
                      THEN Append(acked, [body |-> body, with |-> inflight \ {body}])
                      ELSE acked

WritersInit ==
    /\ inflight = {}
    /\ acked = <<>>

WritersNext ==
    \/ PutArrives
    \/ PutHandled

\* the notes API at rest
NotesQuiet ==
    /\ notesFile = MissingFile
    /\ fileBefore = MissingFile
    /\ req = NoRequest
    /\ res = NoResponse

\* the notes API serving requests, the other handlers at rest
InitNotes == NotesInit /\ SprintsInit /\ SearchInit /\ StoreInit /\ PagedInit /\ WritersInit

SpecNotes == InitNotes /\ [][NotesNext]_vars

\* one GET /api/sprints request
InitSprints == NotesQuiet /\ SprintsInit /\ SearchInit /\ StoreInit /\ PagedInit /\ WritersInit

SpecSprints == InitSprints /\ [][SprintsNext]_vars

\* one POST /api/search request
InitSearch == NotesQuiet /\ SprintsInit /\ SearchInit /\ StoreInit /\ PagedInit /\ WritersInit

SpecSearch == InitSearch /\ [][SearchNext]_vars

\* the store with blockers serving requests, on a root that a server without
\* blockers may have left
InitStore ==
    /\ NotesQuiet /\ SprintsInit /\ SearchInit
    /\ store \in LegacyRoots
    /\ storeBefore = store
    /\ breq = NoStoreRequest
    /\ bres = NoResponse
    /\ PagedInit /\ WritersInit

SpecStore == InitStore /\ [][StoreNext]_vars

\* one call of agilePaged
InitPaged == NotesQuiet /\ SprintsInit /\ SearchInit /\ StoreInit /\ PagedInit /\ WritersInit

SpecPaged == InitPaged /\ [][PagedNext]_vars

\* every page request is answered or fails: the upstream client gives up
\* after its timeout
SpecPagedFair == InitPaged /\ [][PagedNext]_vars /\ WF_vars(PagedNext)

\* the notes API on a file that holds anything: nothing, text that is not
\* JSON, JSON that is not an object, or an object
InitBlob ==
    /\ notesFile \in {MissingFile, InvalidFile, NullFile, ScalarFile, ArrayFile,
                      ObjectFile(EmptyObj)}
    /\ fileBefore = notesFile
    /\ req = NoRequest
    /\ res = NoResponse
    /\ SprintsInit /\ SearchInit /\ StoreInit /\ PagedInit /\ WritersInit

SpecBlob == InitBlob /\ [][NotesNext]_vars

\* concurrent PUT /api/notes requests on a file that is missing, unreadable
\* or empty
InitWriters ==
    NotesInit /\ SprintsInit /\ SearchInit /\ StoreInit /\ PagedInit /\ WritersInit

SpecWriters == InitWriters /\ [][WritersNext]_vars

\* the server: the notes API and the two handlers side by side
Init == NotesInit /\ SprintsInit /\ SearchInit /\ StoreInit /\ PagedInit /\ WritersInit

Next == NotesNext \/ SprintsNext \/ SearchNext

Spec == Init /\ [][Next]_vars

(***************************************************************************)
(* Claims about the notes API                                              *)
(***************************************************************************)
\* every character of t is white space (t is empty after trimming)
OnlyWhiteSpace(t) == \A n \in 1..Len(t) : t[n] \in WhiteSpace

AckedPut(r, rs) == r.method = "PUT" /\ rs.status = 200

\* the bucket key, issue key and text of an acknowledged PUT
PutKey(r) == sprintKey(r.params["projectKey"], r.params["sprintName"])
PutIssue(r) == r.params["issueKey"]
PutText(r) == IF "text" \in DOMAIN r.params THEN r.params["text"] ELSE <<>>

\* the note GET /api/notes shows for (project, sprint, issueKey): a set with
\* the text, empty when the key is absent from the returned map
NoteRead(f, project, sprint, issueKey) ==
    LET notes == GetNotesResponse(f, Query(project, sprint)).body.notes
    IN IF issueKey \in DOMAIN notes THEN {notes[issueKey]} ELSE {}

\* C1: no bucket of the persisted root holds an issue key whose text is
\* empty or only white space.
C1_NoBlankNote ==
    \A sk \in DOMAIN notesFile.root : \A i \in DOMAIN notesFile.root[sk] :
        ~OnlyWhiteSpace(notesFile.root[sk][i])

\* a PUT with white-space text was acknowledged while a note is stored
C1_Witness ==
    /\ AckedPut(req, res)
    /\ PutText(req) = <<" ">>
    /\ \E sk \in DOMAIN notesFile.root : notesFile.root[sk] # EmptyObj

\* an acknowledged PUT with blank text for a key that had a note
BlankPutOnNote ==
    /\ AckedPut(req, res)
    /\ OnlyWhiteSpace(PutText(req))
    /\ PutKey(req) \in DOMAIN loadNotesFile(fileBefore)
    /\ PutIssue(req) \in DOMAIN loadNotesFile(fileBefore)[PutKey(req)]

\* C2: a PUT with blank text for a key that has a note removes the entry from
\* the persisted bucket, and the GET for that (project, sprint) that follows
\* answers 200 with a notes map that lacks the key.
C2_BlankTextRemoves ==
    BlankPutOnNote =>
        /\ PutIssue(req) \notin DOMAIN notesFile.root[PutKey(req)]
        /\ LET following == GetNotesResponse(notesFile,
                    Query(req.params["projectKey"], req.params["sprintName"]))
           IN /\ following.status = 200
              /\ PutIssue(req) \notin DOMAIN following.body.notes

\* a blank PUT removed one note of a bucket and left the other
C2_Witness ==
    /\ BlankPutOnNote
    /\ PutText(req) = <<" ">>
    /\ notesFile.root[PutKey(req)] # EmptyObj

\* the text of an acknowledged non-blank PUT is what GET shows right after it
WriteIsRead ==
    (AckedPut(req, res) /\ ~OnlyWhiteSpace(PutText(req)))
        => NoteRead(notesFile, req.params["projectKey"], req.params["sprintName"],
                    PutIssue(req)) = {PutText(req)}

\* C3 as stated: the text of an acknowledged PUT is what GET shows, and a note
\* that GET shows for (project, sprint, issueKey) is changed by no request
\* but a PUT for the same (project, sprint, issueKey).
C3_UntilPutForSameTriple ==
    /\ WriteIsRead
    /\ \A a \in Addresses, i \in IssueKeys :
         (/\ NoteRead(fileBefore, a[1], a[2], i) # {}
          /\ ~(/\ AckedPut(req, res)
               /\ req.params["projectKey"] = a[1]
               /\ req.params["sprintName"] = a[2]
               /\ req.params["issueKey"] = i))
             => NoteRead(notesFile, a[1], a[2], i) = NoteRead(fileBefore, a[1], a[2], i)

\* C3 (amended): the text of an acknowledged PUT is what GET shows, and a note
\* is changed by no request but a PUT for the same issue key whose
\* projectKey|||sprintName is the same bucket key.
C3_UntilPutForSameBucketKey ==
    /\ WriteIsRead
    /\ \A a \in Addresses, i \in IssueKeys :
         (/\ NoteRead(fileBefore, a[1], a[2], i) # {}
          /\ ~(/\ AckedPut(req, res)
               /\ PutKey(req) = sprintKey(a[1], a[2])
               /\ req.params["issueKey"] = i))
             => NoteRead(notesFile, a[1], a[2], i) = NoteRead(fileBefore, a[1], a[2], i)

\* a note written earlier was read back by a GET that followed a PUT for the
\* other issue key of its bucket
C3_Witness ==
    /\ req.method = "GET" /\ res.status = 200
    /\ Cardinality(DOMAIN res.body.notes) = 2
    /\ \E i \in DOMAIN res.body.notes : res.body.notes[i] = <<" ", "a", "\t">>

\* the member names of a bucket of the {notes, blockers} shape
NotesMember == <<"n", "o", "t", "e", "s">>
BlockersMember == <<"b", "l", "o", "c", "k", "e", "r", "s">>

\* C5: a bucket stored as a flat issueKey -> text map is read as
\* {notes: <that map>, blockers: {}}, and after the next write to it the
\* persisted bucket has the {notes, blockers} shape and still holds every
\* note the write did not address.
C5_LegacyBucketNormalized ==
    /\ (/\ req.method = "GET" /\ res.status = 200
        /\ sprintKey(req.params["project"], req.params["sprint"])
               \in DOMAIN loadNotesFile(fileBefore))
        => LET legacy == loadNotesFile(fileBefore)[
                             sprintKey(req.params["project"], req.params["sprint"])]
           IN /\ legacy # EmptyObj
              => /\ DOMAIN res.body = {"notes", "blockers"}
                 /\ res.body.notes = legacy
                 /\ res.body.blockers = EmptyObj
    /\ (AckedPut(req, res) /\ PutKey(req) \in DOMAIN loadNotesFile(fileBefore))
        => LET legacy == loadNotesFile(fileBefore)[PutKey(req)]
               bucket == notesFile.root[PutKey(req)]
           IN /\ DOMAIN bucket = {NotesMember, BlockersMember}
              /\ \A i \in DOMAIN legacy \ {PutIssue(req)} :
                    /\ i \in DOMAIN bucket[NotesMember]
                    /\ bucket[NotesMember][i] = legacy[i]

\* the member f is not in the request, or is the empty string
Lacks(params, f) == f \notin DOMAIN params \/ params[f] = <<>>

PutLacksParameter ==
    /\ req.method = "PUT"
    /\ \/ Lacks(req.params, "projectKey")
       \/ Lacks(req.params, "sprintName")
       \/ Lacks(req.params, "issueKey")

\* C19: a PUT /api/notes without projectKey, sprintName or issueKey is
\* answered 400 with an error message and the file is left as it was.
C19_InvalidPutChangesNothing ==
    PutLacksParameter =>
        /\ res.status = 400
        /\ DOMAIN res.body = {"error"}
        /\ notesFile = fileBefore

\* such a request arrived when the file held a note
C19_Witness ==
    /\ PutLacksParameter
    /\ "issueKey" \notin DOMAIN req.params
    /\ res.status = 400
    /\ notesFile.kind = "object"
    /\ \E sk \in DOMAIN notesFile.root : notesFile.root[sk] # EmptyObj

\* C20: on a file that holds a JSON object, an acknowledged PUT /api/notes
\* changes at most the entry of its issueKey in the bucket of its key: every
\* other bucket and every other entry of that bucket is persisted as it was
\* and no bucket is removed; a GET /api/notes leaves the file as it was.
C20_PutChangesOneEntry ==
    fileBefore.kind = "object" =>
        /\ req.method = "GET" => notesFile = fileBefore
        /\ AckedPut(req, res) =>
              LET sk == PutKey(req)
                  before == fileBefore.root
                  after == notesFile.root
                  bucket == IF sk \in DOMAIN before THEN before[sk] ELSE EmptyObj
              IN /\ notesFile.kind = "object"
                 /\ DOMAIN after = DOMAIN before \cup {sk}
                 /\ \A k \in DOMAIN before \ {sk} : after[k] = before[k]
                 /\ DOMAIN after[sk] \ {PutIssue(req)} = DOMAIN bucket \ {PutIssue(req)}
                 /\ \A i \in DOMAIN bucket \ {PutIssue(req)} : after[sk][i] = bucket[i]

\* a PUT was acknowledged on a file that held a note in another bucket and a
\* note for another issue in the addressed bucket
C20_Witness ==
    /\ AckedPut(req, res)
    /\ fileBefore.kind = "object"
    /\ PutKey(req) \in DOMAIN fileBefore.root
    /\ DOMAIN fileBefore.root[PutKey(req)] \ {PutIssue(req)} # {}
    /\ \E k \in DOMAIN fileBefore.root \ {PutKey(req)} : fileBefore.root[k] # EmptyObj
    /\ notesFile # fileBefore

ValidGet ==
    /\ req.method = "GET"
    /\ Truthy(req.params, "project") /\ Truthy(req.params, "sprint")

\* C18: GET /api/notes with both parameters answers 200 with an empty notes
\* map when the file is missing, is not valid JSON, holds JSON that is not an
\* object, or holds no bucket for the (project, sprint).
C18_GetNeverFailsOnBlob ==
    (/\ ValidGet
     /\ \/ fileBefore.kind # "object"
        \/ sprintKey(req.params["project"], req.params["sprint"])
               \notin DOMAIN fileBefore.root)
        => /\ res.status = 200
           /\ res.body.notes = EmptyObj

(***************************************************************************)
(* Claims about the store with blockers                                    *)
(***************************************************************************)
AckedBlockerPut == breq.method = "PUT" /\ breq.path = "/api/blocker" /\ bres.status = 200

\* what GET /api/notes answers for an address on a root
Answer(root, a) == getBucket(root, a[1], a[2])

SprintsAnswered == spc = "done" /\ sres.status = 200

StateRank(state) ==
    CASE state = "active" -> 0 [] state = "future" -> 1 [] state = "closed" -> 2
      [] state = "unknown" -> 3 [] OTHER -> 9

\* C6: the sprint list of the response is ordered by state rank and, within
\* one rank, by ascending name.
C6_OrderedByStateRank ==
    SprintsAnswered =>
        \A n \in 1..(Len(sres.sprints) - 1) :
            LET a == sres.sprints[n]
                b == sres.sprints[n + 1]
            IN \/ StateRank(a.state) < StateRank(b.state)
               \/ /\ StateRank(a.state) = StateRank(b.state)
                  /\ CompareCodeUnits(a.name, b.name) <= 0

\* a board type that is "scrum" whatever the case of its letters
IsScrumType(type) ==
    /\ Len(type) = 5
    /\ type[1] \in {"s", "S"} /\ type[2] \in {"c", "C"} /\ type[3] \in {"r", "R"}
    /\ type[4] \in {"u", "U"} /\ type[5] \in {"m", "M"}

NonScrumBoardIds == {b.id : b \in {x \in BoardUniverse : ~IsScrumType(x.type)}}

FetchedIds(fetch) == {fetch.sprints[k].id : k \in DOMAIN fetch.sprints}

\* C8: no two entries of a response have the same sprint id, and an entry read
\* from the boards carries the id and name of the first board, in listing
\* order, whose sprint fetch returned that sprint id.
C8_OneEntryPerSprint ==
    SprintsAnswered =>
        /\ \A m, n \in DOMAIN sres.sprints :
              m # n => sres.sprints[m].id # sres.sprints[n].id
        /\ seen # <<>> =>
              \A n \in DOMAIN sres.sprints :
                  LET e == sres.sprints[n]
                      fetches == {k \in DOMAIN returned : e.id \in FetchedIds(returned[k])}
                  IN /\ fetches # {}
                     /\ LET first == CHOOSE k \in fetches : \A j \in fetches : k <= j
                        IN /\ e.boardId = returned[first].board.id
                           /\ e.boardName = returned[first].board.name

\* two boards returned the same sprint
C8_Witness ==
    /\ SprintsAnswered
    /\ \E j, k \in DOMAIN returned :
          j # k /\ FetchedIds(returned[j]) \cap FetchedIds(returned[k]) # {}

\* the value of the name token of an encoded sprint
TokenName(tokens) ==
    LET at == {k \in DOMAIN tokens : tokens[k][1] = "name"}
    IN IF at = {} THEN <<>> ELSE tokens[CHOOSE k \in at : \A j \in at : k <= j][2]

\* the sprint names the sprint field of an issue carries
FieldNames(field) ==
    IF field.shape = "null" THEN {}
    ELSE {IF field.values[k].type = "object" THEN field.values[k].name
          ELSE TokenName(field.values[k].tokens) : k \in DOMAIN field.values} \ {<<>>}

\* C9: when the boards gave no sprint, the response holds one entry per
\* distinct sprint name of the project's issues, with id derived:<name>,
\* state unknown, boardId null and boardName derived-from-issues, in
\* ascending order of name.
C9_DerivedFromIssues ==
    (SprintsAnswered /\ seen = <<>>) =>
        LET names == UNION {FieldNames(remote[n]) : n \in DOMAIN remote}
            list == sres.sprints
        IN /\ Len(list) = Cardinality(names)
           /\ {list[n].name : n \in DOMAIN list} = names
           /\ \A n \in DOMAIN list :
                 /\ list[n].id = <<"d", "e", "r", "i", "v", "e", "d", ":">> \o list[n].name
                 /\ list[n].state = "unknown"
                 /\ list[n].boardId = Null
                 /\ list[n].boardName = "derived-from-issues"
           /\ \A n \in 1..(Len(list) - 1) :
                 CompareCodeUnits(list[n].name, list[n + 1].name) < 0

\* the scan read a name from an object and another from an encoded string
C9_Witness ==
    /\ SprintsAnswered /\ seen = <<>>
    /\ Len(sres.sprints) = 2
    /\ sres.sprints[1].name = <<"s", "1", "2">>
    /\ sres.sprints[2].name = <<"s", "7">>
    /\ \E n \in DOMAIN remote : remote[n].values[1].type = "object"

\* the request ended in the handler's catch: an upstream error is answered
UpstreamErrorAnswered ==
    /\ spc = "done"
    /\ sres.status # 200
    /\ sres.error # "Missing projectKeyOrId"

BoardIds == {boards[n].id : n \in DOMAIN boards}

\* C17: a failed sprint fetch of a board does not fail the request: an error
\* is answered only when both board listings failed or the issue scan failed;
\* once the loop over the boards has ended every board was queried, a board
\* whose fetch failed has no sprint in the answer, and the sprints the other
\* boards returned are in the answer.
C17_BoardFailureIsNotFatal ==
    /\ UpstreamErrorAnswered => (failed.listings = {"filtered", "all"} \/ failed.scan)
    /\ (spc \in {"issueScan", "done"} /\ "all" \notin failed.listings /\ listing # "none")
          => queried = BoardIds
    /\ (spc = "done" /\ sres.status = 200) =>
          /\ \A n \in DOMAIN sres.sprints : sres.sprints[n].boardId \notin failed.boards
          /\ \A k \in DOMAIN returned : \A n \in DOMAIN returned[k].sprints :
                \E e \in DOMAIN sres.sprints :
                    sres.sprints[e].id = returned[k].sprints[n].id

\* the fetch of the first board failed with a message other than "doesn't
\* support sprints", and the sprints of the second board are answered
C17_Witness ==
    /\ spc = "done" /\ sres.status = 200
    /\ Len(boards) = 2
    /\ failed.boards = {boards[1].id}
    /\ Len(sres.sprints) = 2
    /\ \A n \in DOMAIN sres.sprints : sres.sprints[n].boardId = boards[2].id

(***************************************************************************)
(* Claims about POST /api/search                                           *)
(***************************************************************************)
\* the least k with k * m >= n
CeilDiv(n, m) == CHOOSE k \in 0..n : k * m >= n /\ \A j \in 0..(k - 1) : j * m < n

\* the upstream serves n >= 1 issues and puts maxResults >= 1 issues in a page
HonouredSearch ==
    /\ qpc # "idle" /\ ~JqlFalsy(qbody)
    /\ Len(jiraIssues) >= 1
    /\ MaxResultsOf(qbody) >= 1
    /\ MaxResultsOf(qbody) <= jiraCap

\* C10: against an upstream that serves N >= 1 issues and honours startAt and
\* maxResults = m, the upstream calls are at the offsets 0, m, 2m, ..., there
\* are never more than ceil(N/m) of them, and a request that is answered made
\* exactly ceil(N/m) calls and returns the N issues in order.
C10_SearchPages ==
    HonouredSearch =>
        LET m == MaxResultsOf(qbody)
            n == Len(jiraIssues)
        IN /\ \A k \in DOMAIN searchCalls : searchCalls[k] = (k - 1) * m
           /\ Len(searchCalls) <= CeilDiv(n, m)
           /\ (qpc = "done" /\ qres.status = 200) =>
                 /\ Len(searchCalls) = CeilDiv(n, m)
                 /\ qres.issues = jiraIssues

\* maxResults = 2 and 5 issues: 3 calls at the offsets 0, 2, 4 and 5 issues
C10_Witness ==
    /\ qpc = "done" /\ qres.status = 200
    /\ MaxResultsOf(qbody) = 2 /\ jiraCap = NoCap
    /\ searchCalls = <<0, 2, 4>>
    /\ Len(qres.issues) = 5

\* C11: a request whose jql is missing, empty or only white space is answered
\* 400 and makes no upstream call.
C11_BlankJqlIsRejected ==
    (qpc # "idle" /\ (~qbody.hasJql \/ OnlyWhiteSpace(qbody.jql)))
        => /\ qpc = "done"
           /\ qres.status = 400
           /\ searchCalls = <<>>

\* the page the upstream served for the k-th call of the request
ServedPage(k) == SearchPage(jiraIssues, searchCalls[k], MaxResultsOf(qbody), jiraCap)

\* C13: the loop goes on after a page only if that page held an issue and the
\* running count is still below the total the page reports; it stops when the
\* count reaches the total or the page is empty.
C13_StopsAtTotalOrEmptyPage ==
    (qpc = "paging" /\ searchCalls # <<>>) =>
        LET data == ServedPage(Len(searchCalls))
        IN /\ Len(data.issues) > 0
           /\ Len(searchAll) < data.total

RECURSIVE PagesUpTo(_)
PagesUpTo(k) == IF k = 0 THEN <<>> ELSE PagesUpTo(k - 1) \o ServedPage(k).issues

\* C15: within one POST /api/search the offsets of the successive upstream
\* calls are strictly increasing, and the issues answered are the pages in
\* the order of the calls.
C15_IncreasingOffsets ==
    /\ \A i, j \in DOMAIN searchCalls : i < j => searchCalls[i] < searchCalls[j]
    /\ (qpc = "done" /\ qres.status = 200) => qres.issues = PagesUpTo(Len(searchCalls))

(***************************************************************************)
(* Claims about concurrent writers                                         *)
(***************************************************************************)
WriterKey(e) == sprintKey(e.body["projectKey"], e.body["sprintName"])

\* the persisted root holds the text of the acknowledged write e
Persisted(e) ==
    /\ notesFile.kind = "object"
    /\ WriterKey(e) \in DOMAIN notesFile.root
    /\ e.body["issueKey"] \in DOMAIN notesFile.root[WriterKey(e)]
    /\ notesFile.root[WriterKey(e)][e.body["issueKey"]] = e.body["text"]

\* a later acknowledged write addressed the same entry
Overwritten(j) ==
    \E k \in DOMAIN acked :
        /\ k > j
        /\ WriterKey(acked[k]) = WriterKey(acked[j])
        /\ acked[k].body["issueKey"] = acked[j].body["issueKey"]

\* two acknowledged writes to different buckets, the second in flight when
\* the first was handled, neither overwritten since
ConcurrentPair(i, j) ==
    /\ i < j
    /\ acked[j].body \in acked[i].with
    /\ WriterKey(acked[i]) # WriterKey(acked[j])
    /\ ~Overwritten(i) /\ ~Overwritten(j)

PagedBounded ==
    /\ ppc = "paging" => Len(pag.out) < HardLimit
    /\ ppc = "paging" => pcalls <= Len(pag.out)
    /\ pcalls <= HardLimit

\* C12: whatever the upstream answers (totals that disagree, isLast never
\* set, pages never empty), a call of agilePaged makes a bounded number of
\* page requests, none once 5000 items are accumulated, and ends.
C12_PagedTerminates == []PagedBounded /\ <>(ppc = "done")

\* the call ended on the hard limit alone, after 100 full pages
C12_Witness ==
    /\ ppc = "done"
    /\ Len(pag.out) >= HardLimit
    /\ pcalls = HardLimit \div AgileMaxResults
    /\ ~plast.isLast /\ plast.hasTotal /\ plast.count > 0
    /\ plast.startAt + plast.count < plast.total

\* C14: the loop ends after a page exactly when the response's isLast is set,
\* or the running count has reached the total the response reports, or the
\* page is empty, or out holds 5000 items; otherwise the next page is
\* requested.
C14_EndsExactlyOnTheFour ==
    (pcalls > 0 /\ ~plast.failed) =>
        (ppc = "done" <=>
            \/ plast.isLast
            \/ plast.hasTotal /\ plast.startAt + plast.count >= plast.total
            \/ plast.count = 0
            \/ Len(pag.out) >= HardLimit)

====
